---- MODULE Spec2Model ----
(***************************************************************************)
(* SpatiaEngine: AOI resolution (core/aoi) and the multi-source pipeline   *)
(* (core/pipeline, core/datasources, core/processing) as state machines.   *)
(*                                                                         *)
(* Two specifications share the operators below:                           *)
(*   SpecAoi  the Aoi object: __init__, define_from_snrc_codes,            *)
(*            define_from_kml_file (each ending in _finalize_definition)   *)
(*   Spec     run_pipeline_from_config: setup_aoi, prepare_project_        *)
(*            structure, load_datasources_from_config, run                 *)
(*                                                                         *)
(* Conventions.  Longitudes/latitudes are whole degrees; the centre of a   *)
(* bounding box is kept doubled (minx + maxx) so that the division by two  *)
(* of the source loses nothing.  A tile code is a sequence of one-letter   *)
(* strings.  A CRS value is a record [form, code]: form "none" (None),     *)
(* "bare" ('32188'), "epsg" ('EPSG:32188') or "invalid" (unparseable).      *)
(* pyproj is taken to read a numeric string as an EPSG code.               *)
(***************************************************************************)
EXTENDS Integers, Sequences, FiniteSets, TLC

VARIABLES
    pc,                   \* position of the modelled program
    aoi,                  \* the Aoi object (PipelineManager.aoi in Spec)
    aoi_call,             \* inputs and result of the last Aoi define call
    custom_crs,           \* the custom CRS override handed to the run
    dirs,                 \* directories that exist under the output base
    list_of_datasources,  \* PipelineManager.list_of_datasources
    processing_summary,   \* PipelineManager.processing_summary
    layers,               \* layers of the combined GPKG: name and the source that wrote it
    run_log,              \* per source of the list: what fetch/processing did
    steps,                \* what each step of run_pipeline_from_config returned
    result,               \* return value of run_pipeline_from_config
    config,               \* the loaded configuration (ConfigManager)
    temp_files,           \* files present in the temp_files directory
    composer,             \* the call of the QGIS project generation made by run
    tile_cache            \* entries of the persistent MNT tile cache directory

vars == <<pc, aoi, aoi_call, custom_crs, dirs, list_of_datasources,
          processing_summary, layers, run_log, steps, result, config, temp_files,
          composer, tile_cache>>

-----------------------------------------------------------------------------
(* Bounds of the model *)

MaxCodes == 2        \* longest list of SNRC codes handed to the Aoi
MaxIndexRows == 4    \* most rows of the 1:20k index
MaxSources == 3      \* most data source configurations

-----------------------------------------------------------------------------
(* Characters and strings *)

DigitChars == {"0", "1", "2", "3", "4", "5", "6", "7", "8", "9"}
UpperChars == {"E", "H", "L", "N", "O", "S", "W", "Z"}
LowerChars == {"e", "h", "l", "n", "o", "s", "w", "z"}

\* str.upper() on one character
upper_char(ch) ==
    CASE ch = "e" -> "E" [] ch = "h" -> "H" [] ch = "l" -> "L"
      [] ch = "n" -> "N" [] ch = "o" -> "O" [] ch = "s" -> "S"
      [] ch = "w" -> "W" [] ch = "z" -> "Z" [] OTHER -> ch

\* str.upper()
upper(s) == [i \in 1..Len(s) |-> upper_char(s[i])]

\* str.isdigit(): non-empty and all digits
isdigit(s) == Len(s) > 0 /\ \A i \in 1..Len(s) : s[i] \in DigitChars

\* str.isalpha() on one character
isalpha(ch) == ch \in UpperChars \cup LowerChars

\* str.startswith
startswith(s, p) == Len(p) <= Len(s) /\ SubSeq(s, 1, Len(p)) = p

-----------------------------------------------------------------------------
(* Zone selection *)

\* keys of VALID_MTM_CRS
VALID_MTM_CRS == 32181..32190

\* the longitude bands of the Quebec MTM zones 7..10, lo <= centre < hi (degrees)
MtmBands ==
    << [lo |-> -72, hi |-> -69, zone |-> 32187],
       [lo |-> -75, hi |-> -72, zone |-> 32188],
       [lo |-> -78, hi |-> -75, zone |-> 32189],
       [lo |-> -81, hi |-> -78, zone |-> 32190] >>

\* twice the centre longitude of bounds = <<minx, miny, maxx, maxy>>
center_lon2(bounds) == bounds[1] + bounds[3]

\* a slip in the band comparisons: lo < centre <= hi
get_mtm_zone_from_bounds_shifted(bounds) ==
    LET c2 == center_lon2(bounds)
    IN  IF 2 * (-72) < c2 /\ c2 <= 2 * (-69) THEN 32187
        ELSE IF 2 * (-75) < c2 /\ c2 <= 2 * (-72) THEN 32188
        ELSE IF 2 * (-78) < c2 /\ c2 <= 2 * (-75) THEN 32189
        ELSE IF 2 * (-81) < c2 /\ c2 <= 2 * (-78) THEN 32190
        ELSE 32188

\* Aoi.get_mtm_zone_from_bounds
get_mtm_zone_from_bounds(bounds) ==
    LET c2 == center_lon2(bounds)
    IN  IF 2 * (-72) <= c2 /\ c2 < 2 * (-69) THEN 32187
        ELSE IF 2 * (-75) <= c2 /\ c2 < 2 * (-72) THEN 32188
        ELSE IF 2 * (-78) <= c2 /\ c2 < 2 * (-75) THEN 32189
        ELSE IF 2 * (-81) <= c2 /\ c2 < 2 * (-78) THEN 32190
        ELSE 32188

NoCrs == [form |-> "none", code |-> 0]

\* a parser that does not read the 'EPSG:' prefix
crs_parses_bare_only(crs) == crs.form = "bare"

\* CRS(crs).to_epsg() succeeds
crs_parses(crs) == crs.form \in {"bare", "epsg"}

\* a validity check that accepts every CRS that parses
is_valid_mtm_crs_any(crs) == crs_parses(crs)

\* Aoi.is_valid_mtm_crs
is_valid_mtm_crs(crs) == crs_parses(crs) /\ crs.code \in VALID_MTM_CRS

-----------------------------------------------------------------------------
(* Tile codes *)

Suffixes20k == { <<"N","E">>, <<"N","O">>, <<"S","E">>, <<"S","O">>,
                 <<"N","W">>, <<"S","W">> }

\* the 50k part of a code: DDADD
is_prefix_5(p) ==
    Len(p) = 5 /\ isdigit(SubSeq(p, 1, 2)) /\ isalpha(p[3]) /\ isdigit(SubSeq(p, 4, 5))

\* the zero-padded 50k part of a code: DDDADD
is_prefix_6(p) ==
    Len(p) = 6 /\ isdigit(SubSeq(p, 1, 3)) /\ isalpha(p[4]) /\ isdigit(SubSeq(p, 5, 6))

\* Aoi._is_code_20k
is_code_20k(code) ==
    LET code_upper == upper(code)
        n == Len(code_upper)
    IN  /\ n \in {7, 8}
        /\ SubSeq(code_upper, n - 1, n) \in Suffixes20k
        /\ LET prefix == SubSeq(code_upper, 1, n - 2)
           IN  is_prefix_5(prefix) \/ is_prefix_6(prefix)

\* a normalization that keeps the zero padding of a sheet code
normalize_50k_code_keep_zero(code_50k) == upper(code_50k)

\* Aoi._normalize_50k_code_for_20k_index
normalize_50k_code_for_20k_index(code_50k) ==
    LET code_upper == upper(code_50k)
    IN  IF Len(code_upper) = 6 /\ code_upper[1] = "0"
        THEN SubSeq(code_upper, 2, 6)
        ELSE code_upper

\* a normalization that keeps the zero padding of a sub-sheet code
normalize_code_keep_zero(code) == upper(code)

\* aoi_handler._normalize_code_for_20k_index
normalize_code_for_20k_index(code) ==
    LET code_upper == upper(code)
    IN  IF /\ Len(code_upper) = 8
           /\ code_upper[1] = "0"
           /\ isalpha(code_upper[4])
           /\ is_prefix_5(SubSeq(code_upper, 2, 6))
        THEN SubSeq(code_upper, 2, 8)
        ELSE code_upper

\* aoi_handler.get_mnt_20k_subfeuillet_data_gdal: the one-row frame of the first
\* index row whose upper-cased code is the normalized code, or nothing
get_mnt_20k_subfeuillet_data_gdal(code, index) ==
    LET normalized == normalize_code_for_20k_index(code)
        found == SelectSeq(index, LAMBDA r : upper(r.feuillet) = upper(normalized))
    IN  IF found = << >> THEN << >>
        ELSE IF ~found[1].geom THEN << >>
        ELSE << found[1] >>

\* the 50k branch of Aoi.define_from_snrc_codes: the index rows one suffix deeper
sub_sheets_of_50k(code, index) ==
    LET normalized_50k_prefix == normalize_50k_code_for_20k_index(code)
        target_prefix_len == Len(normalized_50k_prefix)
    IN  SelectSeq(index, LAMBDA r :
            /\ startswith(upper(r.feuillet), normalized_50k_prefix)
            /\ Len(r.feuillet) = target_prefix_len + 2)

\* one iteration of the loop of Aoi.define_from_snrc_codes
resolve_snrc_code(code_input_orig, index) ==
    LET code_input == upper(code_input_orig)
    IN  IF is_code_20k(code_input)
        THEN get_mnt_20k_subfeuillet_data_gdal(code_input, index)
        ELSE sub_sheets_of_50k(code_input, index)

RECURSIVE concat(_)
concat(ss) == IF ss = << >> THEN << >> ELSE Head(ss) \o concat(Tail(ss))

SetMin(S) == CHOOSE x \in S : \A y \in S : x <= y
SetMax(S) == CHOOSE x \in S : \A y \in S : x >= y

\* total_bounds of the union of the rows' geometries
total_bounds(rows) ==
    << SetMin({rows[i].minx : i \in 1..Len(rows)}), 45,
       SetMax({rows[i].maxx : i \in 1..Len(rows)}), 46 >>

-----------------------------------------------------------------------------
(* The Aoi object *)

NoAoi == [none |-> TRUE]

\* Aoi.__init__
Aoi_init(custom) ==
    LET accepted == custom.form # "none" /\ is_valid_mtm_crs(custom)
    IN  [ definition_type |-> "None",
          input_references |-> << >>,
          has_gdf |-> FALSE,
          gdf_crs |-> 0,
          bounds_epsg4326 |-> << >>,
          use_custom_crs |-> accepted,
          target_mtm_crs |-> IF accepted THEN [form |-> "bare", code |-> custom.code]
                             ELSE NoCrs,
          combined_geometry_mtm |-> FALSE,
          subfeuillet_20k_data_gdfs |-> << >> ]

\* Aoi._finalize_definition; reproj_ok: the Geometry Engine reprojects the
\* geometry into a non-empty one
finalize_definition(a, reproj_ok) ==
    IF ~a.has_gdf \/ a.bounds_epsg4326 = << >> THEN [ok |-> FALSE, aoi |-> a]
    ELSE
    LET drop == a.use_custom_crs /\ a.target_mtm_crs.form # "none"
                    /\ ~is_valid_mtm_crs(a.target_mtm_crs)
        t0 == IF drop THEN NoCrs ELSE a.target_mtm_crs
        t1 == IF t0.form = "none"
              THEN [form |-> "bare", code |-> get_mtm_zone_from_bounds(a.bounds_epsg4326)]
              ELSE t0
        t2 == IF crs_parses(t1)
              THEN [form |-> "epsg", code |-> t1.code]
              ELSE [form |-> "epsg", code |-> get_mtm_zone_from_bounds(a.bounds_epsg4326)]
        a2 == [a EXCEPT !.use_custom_crs = IF drop THEN FALSE ELSE @,
                        !.target_mtm_crs = t2]
    IN  IF a.gdf_crs = 0 THEN [ok |-> FALSE, aoi |-> a2]
        ELSE IF a.gdf_crs = t2.code
             THEN [ok |-> TRUE, aoi |-> [a2 EXCEPT !.combined_geometry_mtm = TRUE]]
        ELSE IF reproj_ok
             THEN [ok |-> TRUE, aoi |-> [a2 EXCEPT !.combined_geometry_mtm = TRUE]]
        ELSE [ok |-> FALSE, aoi |-> a2]

\* a definition that gives up at the first code without a match
define_from_snrc_codes_stop_at_miss(a, snrc_codes_input, index, reproj_ok) ==
    IF snrc_codes_input = << >> THEN [ok |-> FALSE, aoi |-> a]
    ELSE
    LET refs == [i \in 1..Len(snrc_codes_input) |-> upper(snrc_codes_input[i])]
        a1 == [a EXCEPT !.definition_type = "SNRC", !.input_references = refs]
        collected_20k_gdfs ==
            concat([i \in 1..Len(refs) |-> resolve_snrc_code(refs[i], index)])
        geoms_for_union == SelectSeq(collected_20k_gdfs, LAMBDA r : r.geom)
        a2 == [a1 EXCEPT !.subfeuillet_20k_data_gdfs = collected_20k_gdfs]
        a3 == [a2 EXCEPT !.has_gdf = TRUE, !.gdf_crs = 32198,
                         !.bounds_epsg4326 = total_bounds(geoms_for_union)]
    IN  IF \E i \in 1..Len(refs) : resolve_snrc_code(refs[i], index) = << >>
        THEN [ok |-> FALSE, aoi |-> a1]
        ELSE IF geoms_for_union = << >> THEN [ok |-> FALSE, aoi |-> a2]
        ELSE finalize_definition(a3, reproj_ok)

\* Aoi.define_from_snrc_codes
define_from_snrc_codes(a, snrc_codes_input, index, reproj_ok) ==
    IF snrc_codes_input = << >> THEN [ok |-> FALSE, aoi |-> a]
    ELSE
    LET refs == [i \in 1..Len(snrc_codes_input) |-> upper(snrc_codes_input[i])]
        a1 == [a EXCEPT !.definition_type = "SNRC", !.input_references = refs]
        collected_20k_gdfs ==
            concat([i \in 1..Len(refs) |-> resolve_snrc_code(refs[i], index)])
        geoms_for_union == SelectSeq(collected_20k_gdfs, LAMBDA r : r.geom)
        a2 == [a1 EXCEPT !.subfeuillet_20k_data_gdfs = collected_20k_gdfs]
        a3 == [a2 EXCEPT !.has_gdf = TRUE, !.gdf_crs = 32198,
                         !.bounds_epsg4326 = total_bounds(geoms_for_union)]
    IN  IF collected_20k_gdfs = << >> THEN [ok |-> FALSE, aoi |-> a1]
        ELSE IF geoms_for_union = << >> THEN [ok |-> FALSE, aoi |-> a2]
        ELSE finalize_definition(a3, reproj_ok)

\* Aoi.define_from_kml_file; kml: [exists, has_geometry, minx, maxx]
define_from_kml_file(a, kml, index, reproj_ok) ==
    IF ~kml.exists THEN [ok |-> FALSE, aoi |-> a]
    ELSE
    LET a1 == [a EXCEPT !.definition_type = "KML", !.input_references = << kml >>]
        a2 == [a1 EXCEPT !.has_gdf = TRUE, !.gdf_crs = 4326,
                         !.bounds_epsg4326 = << kml.minx, 45, kml.maxx, 46 >>]
        intersecting_20k_tiles ==
            SelectSeq(index, LAMBDA r :
                r.geom /\ r.minx <= kml.maxx /\ kml.minx <= r.maxx)
        a3 == [a2 EXCEPT !.subfeuillet_20k_data_gdfs = intersecting_20k_tiles]
    IN  IF ~kml.has_geometry THEN [ok |-> FALSE, aoi |-> a1]
        ELSE finalize_definition(a3, reproj_ok)

-----------------------------------------------------------------------------
(* Inputs of the Aoi specification *)

\* custom CRS overrides: none, 'EPSG:32185', '32190', 'EPSG:4326', unparseable text
CustomCrsInputs ==
    { NoCrs,
      [form |-> "epsg", code |-> 32185],
      [form |-> "bare", code |-> 32190],
      [form |-> "epsg", code |-> 4326],
      [form |-> "invalid", code |-> 0] }

\* rows the 1:20k index may hold: the four sub-sheets of 21L14 (one stored in
\* lower case), a row stored zero-padded, and a row without geometry
IndexRowPool ==
    << [feuillet |-> <<"2","1","L","1","4","N","E">>, minx |-> -71, maxx |-> -70, geom |-> TRUE],
       [feuillet |-> <<"2","1","L","1","4","N","O">>, minx |-> -72, maxx |-> -71, geom |-> TRUE],
       [feuillet |-> <<"2","1","l","1","4","s","e">>, minx |-> -71, maxx |-> -70, geom |-> TRUE],
       [feuillet |-> <<"2","1","L","1","4","S","O">>, minx |-> -72, maxx |-> -71, geom |-> TRUE],
       [feuillet |-> <<"0","3","1","H","0","5","N","E">>, minx |-> -74, maxx |-> -73, geom |-> TRUE],
       [feuillet |-> <<"3","1","H","0","5","S","O">>, minx |-> -75, maxx |-> -74, geom |-> FALSE] >>

RECURSIVE pick_rows(_, _, _)
pick_rows(pool, S, i) ==
    IF i > Len(pool) THEN << >>
    ELSE (IF i \in S THEN << pool[i] >> ELSE << >>) \o pick_rows(pool, S, i + 1)

\* the indexes: the pool's rows, in the pool's order, at most MaxIndexRows of them
Indexes ==
    { pick_rows(IndexRowPool, S, 1) :
        S \in { T \in SUBSET (1..Len(IndexRowPool)) : Cardinality(T) <= MaxIndexRows } }

\* tile codes a user may give: sub-sheets (lower case, zero-padded) and sheets
\* (plain, zero-padded lower case)
CodePool ==
    { <<"2","1","l","1","4","n","e">>,
      <<"0","2","1","L","1","4","S","E">>,
      <<"0","3","1","H","0","5","N","E">>,
      <<"3","1","H","0","5","S","O">>,
      <<"2","1","L","1","4">>,
      <<"0","2","1","l","1","4">> }

CodeLists == UNION { [1..n -> CodePool] : n \in 1..MaxCodes }

\* boundary files: a missing file, a file without geometry, and boxes whose
\* edges lie on whole degrees from 84W to 66W
KmlLons == { -84, -82, -81, -80, -78, -76, -75, -73, -72, -70, -69, -68, -66 }

KmlFiles ==
    { [exists |-> FALSE, has_geometry |-> FALSE, minx |-> 0, maxx |-> 0],
      [exists |-> TRUE, has_geometry |-> FALSE, minx |-> 0, maxx |-> 0] }
    \cup { [exists |-> TRUE, has_geometry |-> TRUE, minx |-> x, maxx |-> y] :
             <<x, y>> \in { p \in KmlLons \X KmlLons : p[1] <= p[2] } }

NoCall ==
    [kind |-> "none", codes |-> << >>, index |-> << >>, kml |-> << >>,
     resolved |-> << >>, reproj_ok |-> FALSE, ok |-> FALSE]

-----------------------------------------------------------------------------
(* SpecAoi: the Aoi object *)

NoKml == [exists |-> FALSE, has_geometry |-> FALSE, minx |-> 0, maxx |-> 0]

NoConfig ==
    [readable |-> FALSE, project_id |-> "", aoi_type |-> "", codes |-> << >>,
     kml |-> NoKml, datasources |-> << >>, generate_qgis_project |-> TRUE]

\* no project generation was called
NoComposer ==
    [called |-> FALSE, outcome |-> "none", sources_done |-> 0, temp_at_call |-> {}]

PipelineIdle ==
    /\ composer = NoComposer
    /\ tile_cache = {}
    /\ dirs = {}
    /\ list_of_datasources = << >>
    /\ processing_summary = << >>
    /\ layers = {}
    /\ run_log = << >>
    /\ steps = << >>
    /\ result = "none"
    /\ config = NoConfig
    /\ temp_files = {}

InitAoi ==
    /\ pc = "new"
    /\ aoi = NoAoi
    /\ aoi_call = NoCall
    /\ custom_crs = NoCrs
    /\ PipelineIdle

pipeline_vars == <<dirs, list_of_datasources, processing_summary, layers,
                   run_log, steps, result, config, temp_files, composer, tile_cache>>

\* Aoi(custom_crs=...)
AoiConstruct ==
    /\ pc = "new"
    /\ \E c \in CustomCrsInputs :
          /\ custom_crs' = c
          /\ aoi' = Aoi_init(c)
    /\ pc' = "constructed"
    /\ UNCHANGED <<aoi_call, pipeline_vars>>

\* aoi.define_from_snrc_codes(codes) against an index
AoiDefineFromSnrcCodes ==
    /\ pc = "constructed"
    /\ \E codes \in CodeLists, index \in Indexes, reproj_ok \in BOOLEAN :
          LET r == define_from_snrc_codes(aoi, codes, index, reproj_ok)
          IN  /\ aoi' = r.aoi
              /\ aoi_call' =
                    [kind |-> "SNRC", codes |-> codes, index |-> index, kml |-> << >>,
                     resolved |-> [i \in 1..Len(codes) |->
                                     resolve_snrc_code(upper(codes[i]), index)],
                     reproj_ok |-> reproj_ok, ok |-> r.ok]
    /\ pc' = "defined"
    /\ UNCHANGED <<custom_crs, pipeline_vars>>

\* aoi.define_from_kml_file(path) against an index
AoiDefineFromKmlFile ==
    /\ pc = "constructed"
    /\ \E kml \in KmlFiles, index \in {<< >>, pick_rows(IndexRowPool, 1..MaxIndexRows, 1)},
          reproj_ok \in BOOLEAN :
          LET r == define_from_kml_file(aoi, kml, index, reproj_ok)
          IN  /\ aoi' = r.aoi
              /\ aoi_call' =
                    [kind |-> "KML", codes |-> << >>, index |-> index, kml |-> kml,
                     resolved |-> << >>, reproj_ok |-> reproj_ok, ok |-> r.ok]
    /\ pc' = "defined"
    /\ UNCHANGED <<custom_crs, pipeline_vars>>

\* aoi._finalize_definition() called again on an Aoi that was defined with
\* success: same geometry, bounds and override, same Geometry Engine
AoiFinalizeAgain ==
    /\ pc = "defined"
    /\ aoi_call.ok
    /\ LET r == finalize_definition(aoi, aoi_call.reproj_ok)
       IN  /\ aoi' = r.aoi
           /\ aoi_call' = [aoi_call EXCEPT !.ok = r.ok]
    /\ pc' = "refinalized"
    /\ UNCHANGED <<custom_crs, pipeline_vars>>

NextAoi ==
    \/ AoiConstruct
    \/ AoiDefineFromSnrcCodes
    \/ AoiDefineFromKmlFile
    \/ AoiFinalizeAgain

SpecAoi == InitAoi /\ [][NextAoi]_vars

-----------------------------------------------------------------------------
(* Claims about the Aoi object (SpecAoi) *)

\* the zone of the band table for a doubled centre longitude, zone 8 outside
BandsHolding(c2) ==
    { i \in 1..Len(MtmBands) : 2 * MtmBands[i].lo <= c2 /\ c2 < 2 * MtmBands[i].hi }

ZoneDetermined == pc = "defined" /\ aoi.has_gdf /\ aoi.target_mtm_crs.form = "epsg"

\* C7: zone selection is total; the bands are contiguous, non-overlapping and
\* 3 degrees wide; a centre longitude inside band [lo, hi) gives that band's
\* zone and a centre outside every band gives the default zone 8 (32188).
C7_ZoneSelection ==
    /\ \A i \in 1..Len(MtmBands) : MtmBands[i].hi - MtmBands[i].lo = 3
    /\ \A i \in 1..(Len(MtmBands) - 1) : MtmBands[i + 1].hi = MtmBands[i].lo
    /\ (ZoneDetermined /\ ~aoi.use_custom_crs) =>
          LET c2 == aoi.bounds_epsg4326[1] + aoi.bounds_epsg4326[3]
              z == aoi.target_mtm_crs.code
          IN  /\ Cardinality(BandsHolding(c2)) <= 1
              /\ \A i \in BandsHolding(c2) : z = MtmBands[i].zone
              /\ (BandsHolding(c2) = {}) => z = 32188

\* a box centred exactly on 81W, the lower edge of the westernmost band
C7_Witness ==
    /\ ZoneDetermined /\ ~aoi.use_custom_crs /\ aoi_call.ok
    /\ aoi.bounds_epsg4326[1] + aoi.bounds_epsg4326[3] = 2 * (-81)
    /\ aoi.target_mtm_crs.code = 32190

OverrideValid == custom_crs.form \in {"bare", "epsg"} /\ custom_crs.code \in VALID_MTM_CRS

\* C8: after a successful finalization the target zone is set and is one of
\* the valid MTM zones; a valid override is the target zone; an invalid
\* override is ignored (the zone comes from the bounds) and makes no
\* definition fail that has a geometry the engine can reproject.
C8_TargetZoneValid ==
    (pc = "defined") =>
        /\ aoi_call.ok =>
              /\ aoi.target_mtm_crs.form = "epsg"
              /\ aoi.target_mtm_crs.code \in VALID_MTM_CRS
              /\ aoi.combined_geometry_mtm
              /\ OverrideValid => aoi.target_mtm_crs.code = custom_crs.code
              /\ ~OverrideValid =>
                    LET c2 == aoi.bounds_epsg4326[1] + aoi.bounds_epsg4326[3]
                    IN  /\ \A i \in BandsHolding(c2) :
                               aoi.target_mtm_crs.code = MtmBands[i].zone
                        /\ (BandsHolding(c2) = {}) => aoi.target_mtm_crs.code = 32188
        /\ (aoi.has_gdf /\ aoi_call.reproj_ok) => aoi_call.ok

\* the override 'EPSG:4326' is ignored and zone 9 comes from the bounds
C8_Witness ==
    /\ pc = "defined" /\ aoi_call.ok
    /\ custom_crs = [form |-> "epsg", code |-> 4326]
    /\ aoi.target_mtm_crs = [form |-> "epsg", code |-> 32189]

\* a sub-sheet code as the index stores it: upper case, without the zero padding
SubSheetKey(code) ==
    IF Len(code) = 8 /\ code[1] = "0" THEN Tail(upper(code)) ELSE upper(code)

RowsWithCode(index, key) == SelectSeq(index, LAMBDA r : upper(r.feuillet) = key)

SheetPrefix(code) ==
    IF Len(code) = 6 /\ code[1] = "0" THEN Tail(upper(code)) ELSE upper(code)

ImmediateChildren(code, index) ==
    SelectSeq(index, LAMBDA r :
        /\ Len(r.feuillet) = Len(SheetPrefix(code)) + 2
        /\ \A k \in 1..Len(SheetPrefix(code)) :
               upper_char(r.feuillet[k]) = SheetPrefix(code)[k])

\* C10: a sheet (parent) code resolves to exactly the index rows whose code
\* starts, case-insensitively, with the normalized prefix and is two
\* characters longer; a sheet given alone makes them the whole manifest.
C10_ParentResolution ==
    (pc = "defined" /\ aoi_call.kind = "SNRC") =>
        /\ \A i \in 1..Len(aoi_call.codes) :
              ~is_code_20k(aoi_call.codes[i]) =>
                  aoi_call.resolved[i] =
                      ImmediateChildren(aoi_call.codes[i], aoi_call.index)
        /\ (Len(aoi_call.codes) = 1 /\ ~is_code_20k(aoi_call.codes[1])) =>
              aoi.subfeuillet_20k_data_gdfs =
                  ImmediateChildren(aoi_call.codes[1], aoi_call.index)

\* the zero-padded sheet 021l14 with its four sub-sheets indexed
C10_Witness ==
    /\ pc = "defined" /\ aoi_call.kind = "SNRC" /\ aoi_call.ok
    /\ aoi_call.codes = << <<"0","2","1","l","1","4">> >>
    /\ Len(aoi_call.index) = 4
    /\ Len(aoi.subfeuillet_20k_data_gdfs) = 4

\* the index rows a code stands for: its own row for a sub-sheet code, the
\* rows one suffix deeper for any other code
MatchingRows(code, index) ==
    IF is_code_20k(code) THEN RowsWithCode(index, SubSheetKey(code))
    ELSE ImmediateChildren(code, index)

\* define_from_snrc_codes returned False at "no sub-sheet found"
FailedForLackOfMatches ==
    /\ ~aoi_call.ok
    /\ aoi.definition_type = "SNRC"
    /\ ~aoi.has_gdf
    /\ aoi.subfeuillet_20k_data_gdfs = << >>

C12_AsStated ==
    (pc = "defined" /\ aoi_call.kind = "SNRC" /\ aoi_call.ok) =>
        \A i, j \in 1..Len(aoi.subfeuillet_20k_data_gdfs) :
            (i # j) => upper(aoi.subfeuillet_20k_data_gdfs[i].feuillet)
                         # upper(aoi.subfeuillet_20k_data_gdfs[j].feuillet)

\* C13: finalizing an Aoi again after a successful finalization succeeds and
\* leaves the target zone, the projected geometry and every other field of
\* the Aoi as they were.
C13_FinalizeIdempotent ==
    [][ (pc = "defined" /\ pc' = "refinalized") => (aoi_call'.ok /\ aoi' = aoi) ]_vars

\* an Aoi with the override '32190' finalized a second time
C13_Witness ==
    /\ pc = "refinalized" /\ aoi_call.ok
    /\ custom_crs = [form |-> "bare", code |-> 32190]
    /\ aoi.target_mtm_crs = [form |-> "epsg", code |-> 32190]
    /\ aoi.combined_geometry_mtm

-----------------------------------------------------------------------------
(* Data sources: core/datasources *)

\* DataSourceFactory._registry: the class of a configured type, "" if unknown
registry(ds_type) ==
    CASE ds_type = "local_gpkg" -> "LocalGpkgDataSource"
      [] ds_type = "wfs" -> "WfsDataSource"
      [] ds_type = "indexed_local_gpkg" -> "IndexedLocalGpkgDataSource"
      [] ds_type = "mnt_lidar_quebec" -> "MNTLiDARSource"
      [] ds_type = "local_raster" -> "LocalRasterDataSource"
      [] ds_type = "courbes_niveau_quebec" -> "CourbesNiveauSource"
      [] OTHER -> ""

NoDataSource == [none |-> TRUE]

\* the fields validate_config requires of a configuration, by class
required_fields(ds_type) ==
    CASE ds_type = "local_gpkg" -> {"path", "layer_name"}
      [] ds_type = "wfs" -> {"base_url", "layer_name"}
      [] ds_type = "indexed_local_gpkg" ->
            {"data_gpkg_path", "index_gpkg_path", "index_layer_name", "index_block_column"}
      [] ds_type = "mnt_lidar_quebec" ->
            {"index_gpkg_path", "index_layer_name", "index_feuillet_column", "index_url_column"}
      [] ds_type = "local_raster" -> {"path"}
      [] ds_type = "courbes_niveau_quebec" ->
            {"index_gpkg_path", "index_layer_name", "index_feuillet_column", "index_url_column"}
      [] OTHER -> {}

\* the fields validate_config resolves to a path that has to exist
path_fields(ds_type) ==
    CASE ds_type = "local_gpkg" -> {"path"}
      [] ds_type = "indexed_local_gpkg" -> {"data_gpkg_path", "index_gpkg_path"}
      [] ds_type = "mnt_lidar_quebec" -> {"index_gpkg_path"}
      [] ds_type = "local_raster" -> {"path"}
      [] ds_type = "courbes_niveau_quebec" -> {"index_gpkg_path"}
      [] OTHER -> {}

\* validate_config of the configured class: the list of errors, as a set.
\* cfg.fields: the fields present with a non-empty value; cfg.files: the path
\* fields whose file exists
validate_config(cfg) ==
    { [error |-> "requires", field |-> f] : f \in required_fields(cfg.type) \ cfg.fields }
    \cup { [error |-> "not found", field |-> f] :
             f \in (path_fields(cfg.type) \cap cfg.fields) \ cfg.files }

\* DataSource.__init__: enabled is cleared when validate_config finds errors
DataSource_init(cfg) ==
    [ id |-> cfg.id,
      type |-> cfg.type,
      class |-> registry(cfg.type),
      enabled |-> IF validate_config(cfg) # {} THEN FALSE ELSE cfg.enabled,
      valid |-> validate_config(cfg) = {},
      priority |-> cfg.priority_level,
      output_layer_name |-> IF cfg.output_layer_name = "" THEN cfg.id
                            ELSE cfg.output_layer_name ]

\* DataSource.is_enabled
is_enabled(ds) == IF ~ds.enabled THEN FALSE ELSE ds.valid

\* a factory that returns the instance whatever is_enabled() says
create_datasource_unchecked(cfg) ==
    IF cfg.type = "" THEN NoDataSource
    ELSE IF registry(cfg.type) = "" THEN NoDataSource
    ELSE DataSource_init(cfg)

\* DataSourceFactory.create_datasource
create_datasource(cfg) ==
    IF cfg.type = "" THEN NoDataSource
    ELSE IF registry(cfg.type) = "" THEN NoDataSource
    ELSE IF is_enabled(DataSource_init(cfg)) THEN DataSource_init(cfg)
    ELSE NoDataSource

\* a sort that puts a source before the sources of equal priority
RECURSIVE sort_datasources_unstable(_)
sort_datasources_unstable(seq) ==
    IF Len(seq) <= 1 THEN seq
    ELSE LET sorted == sort_datasources_unstable(SubSeq(seq, 1, Len(seq) - 1))
             d == seq[Len(seq)]
             k == Cardinality({ i \in 1..Len(sorted) : sorted[i].priority < d.priority })
         IN  SubSeq(sorted, 1, k) \o << d >> \o SubSeq(sorted, k + 1, Len(sorted))

\* list.sort() with DataSource.__lt__: stable, ascending priority
RECURSIVE sort_datasources(_)
sort_datasources(seq) ==
    IF Len(seq) <= 1 THEN seq
    ELSE LET sorted == sort_datasources(SubSeq(seq, 1, Len(seq) - 1))
             d == seq[Len(seq)]
             k == Cardinality({ i \in 1..Len(sorted) : ~(d.priority < sorted[i].priority) })
         IN  SubSeq(sorted, 1, k) \o << d >> \o SubSeq(sorted, k + 1, Len(sorted))

\* PipelineManager.load_datasources_from_config: the list it builds
load_datasources_from_config(raw_source_configs) ==
    LET built == [i \in 1..Len(raw_source_configs) |->
                     create_datasource(raw_source_configs[i])]
    IN  sort_datasources(SelectSeq(built, LAMBDA d : d # NoDataSource))

-----------------------------------------------------------------------------
(* The factory called on one configuration (SpecFactory) *)

\* the 'type' values given to the factory: the six registered ones, one that
\* is not registered, and none
FactoryTypes ==
    { "local_gpkg", "wfs", "indexed_local_gpkg", "mnt_lidar_quebec",
      "local_raster", "courbes_niveau_quebec", "shapefile", "" }

\* the fields a section of that type may carry
FactoryFields(ds_type) ==
    IF registry(ds_type) = "" THEN {"path", "layer_name"} ELSE required_fields(ds_type)

\* DataSourceFactory.create_datasource(config): the dictionary is kept in
\* config, the returned value is the one element of list_of_datasources
FactoryCreate ==
    /\ pc = "new"
    /\ \E t \in FactoryTypes, e \in BOOLEAN :
       \E f \in SUBSET FactoryFields(t) :
       \E x \in SUBSET (path_fields(t) \cap f) :
          LET cfg == [id |-> "src", type |-> t, enabled |-> e, fields |-> f,
                      files |-> x, output_layer_name |-> "", priority_level |-> 1]
          IN  /\ config' = cfg
              /\ list_of_datasources' = << create_datasource(cfg) >>
    /\ pc' = "created"
    /\ UNCHANGED <<aoi, aoi_call, custom_crs, dirs, processing_summary, layers,
                   run_log, steps, result, temp_files, composer, tile_cache>>

NextFactory == FactoryCreate

SpecFactory == InitAoi /\ [][NextFactory]_vars

\* the configuration lacks a field its type requires
LacksRequiredField == required_fields(config.type) \ config.fields # {}

\* C14: create_datasource on a configuration that lacks a required field,
\* names an unregistered type or has no type returns None (nothing is
\* raised); with a registered type and a missing field the instance built
\* has enabled = False; and no instance that is returned is disabled.
C14_FactoryReturnsNoDisabled ==
    (pc = "created") =>
        LET r == list_of_datasources[1]
        IN  /\ (config.type = "" \/ registry(config.type) = "" \/ LacksRequiredField)
                  => r = NoDataSource
            /\ (registry(config.type) # "" /\ LacksRequiredField)
                  => ~DataSource_init(config).enabled
            /\ (r # NoDataSource) => (r.enabled /\ config.enabled)

\* an enabled WFS section without 'layer_name' was given to the factory
C14_Witness ==
    /\ pc = "created"
    /\ config.type = "wfs" /\ config.enabled
    /\ config.fields = {"base_url"}
    /\ list_of_datasources = << NoDataSource >>

-----------------------------------------------------------------------------
(* The two zone selectors on one bounding box (SpecZone) *)

\* aoi_handler.get_mtm_nad83_crs_from_bounds: 'EPSG:n' or None; the
\* thresholds are half degrees, compared on twice the centre longitude
get_mtm_nad83_crs_from_bounds(bounds) ==
    IF Len(bounds) # 4 THEN NoCrs
    ELSE
    LET c2 == center_lon2(bounds)
    IN  IF -117 <= c2 /\ c2 < -111 THEN [form |-> "epsg", code |-> 32183]
        ELSE IF -123 <= c2 /\ c2 < -117 THEN [form |-> "epsg", code |-> 32184]
        ELSE IF -129 <= c2 /\ c2 < -123 THEN [form |-> "epsg", code |-> 32185]
        ELSE IF -135 <= c2 /\ c2 < -129 THEN [form |-> "epsg", code |-> 32186]
        ELSE IF -141 <= c2 /\ c2 < -135 THEN [form |-> "epsg", code |-> 32187]
        ELSE IF -147 <= c2 /\ c2 < -141 THEN [form |-> "epsg", code |-> 32188]
        ELSE IF -153 <= c2 /\ c2 < -147 THEN [form |-> "epsg", code |-> 32189]
        ELSE IF -159 <= c2 /\ c2 < -153 THEN [form |-> "epsg", code |-> 32190]
        ELSE NoCrs

\* longitudes of the corners of a bounding box, whole degrees
ZoneLons == -84..-52

\* both selectors called on one bounding box: the box is kept in config, the
\* two answers in result
ZoneSelect ==
    /\ pc = "new"
    /\ \E minx \in ZoneLons, maxx \in ZoneLons :
          /\ minx <= maxx
          /\ LET bounds == << minx, 45, maxx, 46 >>
             IN  /\ config' = [bounds |-> bounds]
                 /\ result' = [lenient |-> get_mtm_zone_from_bounds(bounds),
                               strict |-> get_mtm_nad83_crs_from_bounds(bounds)]
    /\ pc' = "selected"
    /\ UNCHANGED <<aoi, aoi_call, custom_crs, dirs, list_of_datasources,
                   processing_summary, layers, run_log, steps, temp_files, composer, tile_cache>>

NextZone == ZoneSelect

SpecZone == InitAoi /\ [][NextZone]_vars

\* the centre of the box lies in the range covered by the bands of the
\* lenient selector (-81 <= c < -69) and of the strict one (-79.5 <= c < -55.5)
InBothRanges ==
    LET c2 == center_lon2(config.bounds)
    IN  /\ 2 * (-81) <= c2 /\ c2 < 2 * (-69)
        /\ -159 <= c2 /\ c2 < -111

\* C30 as stated: for every bounding box whose centre longitude lies inside
\* the band ranges of both selectors, Aoi.get_mtm_zone_from_bounds and
\* get_mtm_nad83_crs_from_bounds return the same zone.
C30_AsStated ==
    (pc = "selected" /\ InBothRanges) => result.strict.code = result.lenient

-----------------------------------------------------------------------------
(* Project structure: core/utils/file_utils, PipelineManager *)

ProjectDirs == {"project", "imagery", "temp"}

\* file_utils.ensure_directory (mkdir parents=True, exist_ok=True); failing:
\* the directories the file system refuses to create.  Returns False on error.
ensure_directory(path, existing, failing) ==
    IF path \in failing \/ "project" \in failing
    THEN [ok |-> FALSE, dirs |-> existing]
    ELSE [ok |-> TRUE, dirs |-> existing \cup {"project", path}]

\* the try block of PipelineManager.prepare_project_structure: three
\* ensure_directory calls whose results are dropped
prepare_directories(existing, failing) ==
    LET d1 == ensure_directory("project", existing, failing)
        d2 == ensure_directory("imagery", d1.dirs, failing)
        d3 == ensure_directory("temp", d2.dirs, failing)
    IN  [ok |-> TRUE, dirs |-> d3.dirs]

\* pipeline_manager.get_mtm_short_name
get_mtm_short_name(crs) ==
    IF crs.form # "epsg" THEN "UnknownZone"
    ELSE CASE crs.code = 32183 -> "3" [] crs.code = 32184 -> "4"
           [] crs.code = 32185 -> "5" [] crs.code = 32186 -> "6"
           [] crs.code = 32187 -> "7" [] crs.code = 32188 -> "8"
           [] crs.code = 32189 -> "9" [] crs.code = 32190 -> "10"
           [] OTHER -> "EPSG"

\* a setup that keeps the Aoi object when its definition failed
setup_aoi_keep_partial(aoi_definition_type, codes, kml, custom, index, reproj_ok) ==
    LET a0 == Aoi_init(custom)
        r == IF aoi_definition_type = "SNRC"
             THEN (IF codes # << >>
                   THEN define_from_snrc_codes(a0, codes, index, reproj_ok)
                   ELSE [ok |-> FALSE, aoi |-> a0])
             ELSE IF aoi_definition_type = "KML"
             THEN define_from_kml_file(a0, kml, index, reproj_ok)
             ELSE [ok |-> FALSE, aoi |-> a0]
    IN  IF r.ok THEN [ok |-> TRUE, aoi |-> r.aoi] ELSE [ok |-> FALSE, aoi |-> r.aoi]

\* PipelineManager.setup_aoi
setup_aoi(aoi_definition_type, codes, kml, custom, index, reproj_ok) ==
    LET a0 == Aoi_init(custom)
        r == IF aoi_definition_type = "SNRC"
             THEN (IF codes # << >>
                   THEN define_from_snrc_codes(a0, codes, index, reproj_ok)
                   ELSE [ok |-> FALSE, aoi |-> a0])
             ELSE IF aoi_definition_type = "KML"
             THEN define_from_kml_file(a0, kml, index, reproj_ok)
             ELSE [ok |-> FALSE, aoi |-> a0]
    IN  IF r.ok THEN [ok |-> TRUE, aoi |-> r.aoi] ELSE [ok |-> FALSE, aoi |-> NoAoi]

-----------------------------------------------------------------------------
(* PipelineManager.run: the per-source loop *)

AoiIndexId == "snrc_index_local_50k"

AoiClasses == {"MNTLiDARSource", "CourbesNiveauSource", "LocalRasterDataSource"}

\* what the outside world can make of one fetch_data call
FetchEvents(ds, a, existing) ==
    IF ds.class = "MNTLiDARSource"
    THEN (IF a.subfeuillet_20k_data_gdfs = << >> THEN {"no_tiles"}
          ELSE {"error"} \cup (IF "temp" \in existing THEN {"tiles"} ELSE {}))
    ELSE IF ds.class = "LocalRasterDataSource" THEN {"missing", "data"}
    ELSE {"error", "no_data"} \cup (IF "temp" \in existing THEN {"data"} ELSE {})

\* a fetch_data without its error handlers: a failed request propagates
fetch_data_unhandled(ds, event) ==
    IF ~is_enabled(ds) THEN "None"
    ELSE IF ds.class = "LocalGpkgDataSource" /\ ds.id = AoiIndexId THEN "IS_AOI_INDEX_LAYER"
    ELSE IF event = "error" THEN "raise"
    ELSE IF event = "tiles" THEN "list"
    ELSE IF event = "data" THEN "path"
    ELSE "None"

\* <Class>.fetch_data, each wrapped in handle_errors(default_return=None) and
\* in its own try/except: a failed request (network, HTTP status, timeout)
\* comes back as None, like a request that found nothing
fetch_data(ds, event) ==
    IF ~is_enabled(ds) THEN "None"
    ELSE IF ds.class = "LocalGpkgDataSource" /\ ds.id = AoiIndexId THEN "IS_AOI_INDEX_LAYER"
    ELSE IF event = "error" THEN "None"
    ELSE IF event = "tiles" THEN "list"
    ELSE IF event = "data" THEN "path"
    ELSE "None"

\* what the processors can make of a fetched result: merge_reproject_clip_rasters
\* and generate_hillshade_gdal for rasters, process_vector_data for vectors
ProcOutcomes(ds, fetched, existing) ==
    IF ds.class = "MNTLiDARSource" /\ fetched = "list"
    THEN {"no_valid_tiles", "merge_failed"}
         \cup (IF "imagery" \in existing THEN {"merged", "merged_no_hillshade"} ELSE {})
    ELSE IF ds.class = "LocalRasterDataSource" /\ fetched = "path"
    THEN {"failed"} \cup (IF "imagery" \in existing THEN {"processed"} ELSE {})
    ELSE IF fetched = "path"
    THEN {"failed", "empty"} \cup (IF "project" \in existing THEN {"written"} ELSE {})
    ELSE {"none"}

\* the loop body of run before the fetch: is fetch_data called for ds?
reaches_fetch(ds, a) ==
    /\ ds.enabled
    /\ ds.id # AoiIndexId
    /\ a.combined_geometry_mtm
    /\ (ds.class \in AoiClasses \/ Len(a.bounds_epsg4326) = 4)

summary_entry(ds, status) ==
    [id |-> ds.id, type |-> ds.type, enabled |-> ds.enabled, status |-> status,
     priority_level |-> ds.priority]

\* the loop body of run for a source whose fetch is not called:
\* the entries it appends to the summary
skip_source(ds, a) ==
    IF ~ds.enabled THEN << summary_entry(ds, "Ignored (not enabled)") >>
    ELSE IF ds.id = AoiIndexId THEN << >>
    ELSE IF ~a.combined_geometry_mtm THEN << summary_entry(ds, "Failed (MTM AOI missing)") >>
    ELSE << summary_entry(ds, "Failed (AOI bounds fetch)") >>

\* a loop body that counts the DEM as done only with its hillshade
current_step_success_with_hillshade(ds, fetched, proc) ==
    IF ds.class = "MNTLiDARSource" /\ fetched = "list" THEN proc = "merged"
    ELSE IF ds.class = "LocalRasterDataSource" /\ fetched = "path" THEN proc = "processed"
    ELSE IF fetched = "IS_AOI_INDEX_LAYER" THEN TRUE
    ELSE IF fetched = "path" THEN proc \in {"written", "empty"}
    ELSE IF fetched = "None" THEN TRUE
    ELSE FALSE

\* the loop body of run after the fetch: current_step_success
current_step_success(ds, fetched, proc) ==
    IF ds.class = "MNTLiDARSource" /\ fetched = "list"
    THEN proc \in {"merged", "merged_no_hillshade"}
    ELSE IF ds.class = "LocalRasterDataSource" /\ fetched = "path" THEN proc = "processed"
    ELSE IF fetched = "IS_AOI_INDEX_LAYER" THEN TRUE
    ELSE IF fetched = "path" THEN proc \in {"written", "empty"}
    ELSE IF fetched = "None" THEN TRUE
    ELSE FALSE

\* a loop body that words the outcome of an empty input as the AOI layer's
source_status_empty_worded(ds, fetched, proc) ==
    IF fetched = "path" /\ proc = "empty" THEN "Success (empty)"
    ELSE IF current_step_success(ds, fetched, proc)
    THEN (IF fetched = "None" THEN "Success (no data in AOI)" ELSE "Success")
    ELSE "Processing Failed"

\* the loop body of run after the fetch: the status it records.  "Fetch Failed"
\* is assigned before the fetch and overwritten by "Processing Failed" after it.
source_status(ds, fetched, proc) ==
    LET status_after_fetch == "Processing Failed"
        status_in_branch ==
            IF ds.class = "MNTLiDARSource" /\ fetched = "list" THEN status_after_fetch
            ELSE IF ds.class = "LocalRasterDataSource" /\ fetched = "path" THEN status_after_fetch
            ELSE IF fetched = "IS_AOI_INDEX_LAYER" THEN "Index (handled)"
            ELSE IF fetched = "path" THEN status_after_fetch
            ELSE IF fetched = "None" THEN "Success (no data in AOI)"
            ELSE status_after_fetch
        ok == current_step_success(ds, fetched, proc)
    IN  IF ok /\ status_in_branch \notin {"Index (handled)", "Success (no data in AOI)"}
        THEN "Success"
        ELSE IF ~ok /\ status_in_branch \notin
                          {"Failed (MTM AOI missing)", "Failed (AOI bounds fetch)"}
        THEN "Processing Failed"
        ELSE status_in_branch

\* PipelineManager._process_aoi_layer: the entries it appends; save is what
\* writing the AOI extent does ("saved", "empty" or "error")
process_aoi_layer(sources, a, save) ==
    LET found == SelectSeq(sources, LAMBDA d : d.id = AoiIndexId /\ d.enabled)
    IN  IF a = NoAoi \/ found = << >> THEN << >>
        ELSE LET status == IF a.has_gdf /\ a.target_mtm_crs.form # "none"
                           THEN (IF save = "saved" THEN "Success"
                                 ELSE IF save = "empty" THEN "Success (empty)"
                                 ELSE "Failed (AOI Extent Save)")
                           ELSE "Failed (AOI Extent Save)"
             IN  << summary_entry(found[1], status) >>

\* the name of the layer _process_aoi_layer writes: the output layer name of
\* the enabled index source, "" without one
aoi_layer_name(sources) ==
    LET found == SelectSeq(sources, LAMBDA d : d.id = AoiIndexId /\ d.enabled)
    IN  IF found = << >> THEN "" ELSE found[1].output_layer_name

\* a write that replaces the whole file instead of one layer of it
write_layer_truncating(store, name, source) == { [name |-> name, source |-> source] }

\* GeoDataFrame.to_file(gpkg, layer=name, driver="GPKG"): the layer of that
\* name is created or replaced, the other layers of the file stay
write_layer(store, name, source) ==
    { l \in store : l.name # name } \cup { [name |-> name, source |-> source] }

\* the prefix of the temporary file a vector fetch leaves in the temp directory
temp_prefix(ds) ==
    CASE ds.class = "WfsDataSource" -> "temp_wfs_"
      [] ds.class = "LocalGpkgDataSource" -> "temp_filtered_"
      [] ds.class = "IndexedLocalGpkgDataSource" -> "temp_indexed_"
      [] ds.class = "CourbesNiveauSource" -> "temp_merged_"
      [] OTHER -> ""

\* the rank of an id in Python's string order
id_rank(id) ==
    CASE id = "hydro" -> 1 [] id = "lakes" -> 2 [] id = "lots" -> 3
      [] id = "mnt" -> 4 [] id = "ortho" -> 5 [] id = "roads" -> 6
      [] id = AoiIndexId -> 7
      [] OTHER -> 8

\* the sort key of display_summary compared: (is index, priority, id)
summary_key_less(x, y) ==
    LET bx == IF x.id = AoiIndexId THEN 1 ELSE 0
        by == IF y.id = AoiIndexId THEN 1 ELSE 0
    IN  \/ bx < by
        \/ bx = by /\ x.priority_level < y.priority_level
        \/ bx = by /\ x.priority_level = y.priority_level /\ id_rank(x.id) < id_rank(y.id)

\* PipelineManager.display_summary: the stable sort of the summary
RECURSIVE display_summary(_)
display_summary(seq) ==
    IF Len(seq) <= 1 THEN seq
    ELSE LET sorted == display_summary(SubSeq(seq, 1, Len(seq) - 1))
             x == seq[Len(seq)]
             k == Cardinality({ i \in 1..Len(sorted) : ~summary_key_less(x, sorted[i]) })
         IN  SubSeq(sorted, 1, k) \o << x >> \o SubSeq(sorted, k + 1, Len(sorted))

\* PipelineManager.cleanup: temp_* files are deleted, the temp directory is
\* removed when nothing is left in it
cleanup(existing, files) ==
    LET kept == { f \in files : f.prefix \notin
                     {"temp_filtered_", "temp_indexed_", "temp_wfs_", "temp_reproj_",
                      "temp_unclipped_mosaic_"} }
    IN  IF "temp" \in existing
        THEN [dirs |-> IF kept = {} THEN existing \ {"temp"} ELSE existing, files |-> kept]
        ELSE [dirs |-> existing, files |-> files]

\* PipelineManager._generate_qgis_project: the qgis_project directory
generate_qgis_project(existing, written) ==
    IF written = {} /\ "imagery" \notin existing THEN existing
    ELSE IF "project" \in existing THEN existing \cup {"qgis_project"}
    ELSE existing

\* what the project generation can end with: nothing to compose, the
\* composer returned True, returned False, or raised
ComposerOutcomes(existing, written) ==
    IF written = {} /\ "imagery" \notin existing THEN {"skipped"}
    ELSE {"failure", "raise"}
         \cup (IF written # {} /\ "project" \in existing THEN {"ok"} ELSE {})

\* a run that lets an error of the composer end it
run_return_composer_fatal(outcome) ==
    IF outcome \in {"failure", "raise"} THEN "None" ELSE "summary"

\* the end of run: _generate_qgis_project catches and logs what the composer
\* does, and run returns the summary
run_return(outcome) == "summary"

\* run's guard: the pipeline is initialized
run_initialized(a, prepared) ==
    a # NoAoi /\ prepared /\ a.target_mtm_crs.form # "none"

\* a reading of the run that fails when a source did not succeed
pipeline_result_strict(summary_returned, summary) ==
    IF ~summary_returned THEN "False"
    ELSE IF \E i \in 1..Len(summary) : summary[i].status \in
               {"Processing Failed", "Fetch Failed", "Failed (AOI Extent Save)"}
    THEN "False"
    ELSE "True"

\* run_pipeline_from_config, steps 6 and 7: False iff run returned None
pipeline_result(summary_returned, summary) ==
    IF ~summary_returned THEN "False" ELSE "True"

-----------------------------------------------------------------------------
(* Inputs of the pipeline specification *)

\* the index the pipeline's Aoi reads: the first MaxIndexRows rows of the pool
PipelineIndex == pick_rows(IndexRowPool, 1..MaxIndexRows, 1)

\* AOI sections of a configuration: a sheet, an empty SNRC list, a boundary
\* file inside band 9, one east of every band, a missing file, an unknown type
AoiConfigs ==
    { [aoi_type |-> "SNRC", codes |-> << <<"2","1","L","1","4">> >>, kml |-> NoKml],
      [aoi_type |-> "SNRC", codes |-> << >>, kml |-> NoKml],
      [aoi_type |-> "KML", codes |-> << >>,
       kml |-> [exists |-> TRUE, has_geometry |-> TRUE, minx |-> -78, maxx |-> -76]],
      [aoi_type |-> "KML", codes |-> << >>,
       kml |-> [exists |-> TRUE, has_geometry |-> TRUE, minx |-> -68, maxx |-> -66]],
      [aoi_type |-> "KML", codes |-> << >>, kml |-> NoKml],
      [aoi_type |-> "GPKG", codes |-> << >>, kml |-> NoKml] }

WfsFields == {"base_url", "layer_name"}
MntFields == {"index_gpkg_path", "index_layer_name", "index_feuillet_column", "index_url_column"}

\* data source sections: the AOI index, a WFS layer, a disabled WFS layer, the
\* LiDAR DEM, a local raster, a WFS layer whose configuration is incomplete, a
\* WFS layer configured with the output layer name of another section
SourceConfigPool ==
    << [id |-> "snrc_index_local_50k", type |-> "local_gpkg", enabled |-> TRUE,
        fields |-> {"path", "layer_name"}, files |-> {"path"},
        output_layer_name |-> "", priority_level |-> 5],
       [id |-> "hydro", type |-> "wfs", enabled |-> TRUE,
        fields |-> WfsFields, files |-> {},
        output_layer_name |-> "", priority_level |-> 2],
       [id |-> "roads", type |-> "wfs", enabled |-> FALSE,
        fields |-> WfsFields, files |-> {},
        output_layer_name |-> "", priority_level |-> 1],
       [id |-> "mnt", type |-> "mnt_lidar_quebec", enabled |-> TRUE,
        fields |-> MntFields, files |-> {"index_gpkg_path"},
        output_layer_name |-> "", priority_level |-> 2],
       [id |-> "ortho", type |-> "local_raster", enabled |-> TRUE,
        fields |-> {"path"}, files |-> {"path"},
        output_layer_name |-> "", priority_level |-> 1],
       [id |-> "lots", type |-> "wfs", enabled |-> TRUE,
        fields |-> {"base_url"}, files |-> {},
        output_layer_name |-> "", priority_level |-> 4],
       [id |-> "lakes", type |-> "wfs", enabled |-> TRUE,
        fields |-> WfsFields, files |-> {},
        output_layer_name |-> "hydro", priority_level |-> 3] >>

\* the datasources lists: sections of the pool, in the pool's order
SourceConfigLists ==
    { pick_rows(SourceConfigPool, S, 1) :
        S \in { T \in SUBSET (1..Len(SourceConfigPool)) : Cardinality(T) <= MaxSources } }

Configs ==
    { [readable |-> TRUE, project_id |-> "PRJ", aoi_type |-> a.aoi_type,
       codes |-> a.codes, kml |-> a.kml, datasources |-> ds,
       generate_qgis_project |-> g] :
         a \in AoiConfigs, ds \in SourceConfigLists, g \in BOOLEAN }
    \cup { NoConfig,
           [readable |-> TRUE, project_id |-> "", aoi_type |-> "KML", codes |-> << >>,
            kml |-> [exists |-> TRUE, has_geometry |-> TRUE, minx |-> -78, maxx |-> -76],
            datasources |-> << SourceConfigPool[2] >>, generate_qgis_project |-> TRUE] }

\* --custom-crs: absent, a valid MTM zone, a CRS that is not an MTM zone
PipelineCrsInputs ==
    { NoCrs, [form |-> "epsg", code |-> 32185], [form |-> "epsg", code |-> 4326] }

-----------------------------------------------------------------------------
(* Spec: run_pipeline_from_config *)

Init ==
    /\ pc = "start"
    /\ aoi = NoAoi
    /\ aoi_call = NoCall
    /\ custom_crs = NoCrs
    /\ PipelineIdle

step(name, ok, failed) == [step |-> name, ok |-> ok, failed |-> failed]

step_ok(name) == \E i \in 1..Len(steps) : steps[i].step = name /\ steps[i].ok

\* steps 1 and 2: ConfigManager(config_path), PipelineManager(...)
LoadConfiguration ==
    /\ pc = "start"
    /\ \E cfg \in Configs, c \in PipelineCrsInputs :
          /\ config' = cfg
          /\ custom_crs' = c
          /\ steps' = Append(steps, step("config", cfg.readable, {}))
          /\ IF cfg.readable
             THEN pc' = "setup_aoi" /\ result' = result
             ELSE pc' = "done" /\ result' = "False"
    /\ UNCHANGED <<aoi, aoi_call, dirs, list_of_datasources, processing_summary,
                   layers, run_log, temp_files, composer, tile_cache>>

\* step 3: pipeline.setup_aoi(aoi_type, aoi_definition)
SetupAoi ==
    /\ pc = "setup_aoi"
    /\ \E reproj_ok \in BOOLEAN :
          LET r == setup_aoi(config.aoi_type, config.codes, config.kml, custom_crs,
                             PipelineIndex, reproj_ok)
          IN  /\ aoi' = r.aoi
              /\ aoi_call' = [kind |-> config.aoi_type, codes |-> config.codes,
                              index |-> PipelineIndex, kml |-> config.kml,
                              resolved |-> << >>, reproj_ok |-> reproj_ok, ok |-> r.ok]
              /\ steps' = Append(steps, step("setup_aoi", r.ok, {}))
              /\ IF r.ok
                 THEN pc' = "prepare" /\ result' = result
                 ELSE pc' = "done" /\ result' = "False"
    /\ UNCHANGED <<custom_crs, dirs, list_of_datasources, processing_summary,
                   layers, run_log, config, temp_files, composer, tile_cache>>

\* step 4: pipeline.prepare_project_structure()
PrepareProjectStructure ==
    /\ pc = "prepare"
    /\ IF aoi = NoAoi \/ aoi.target_mtm_crs.form = "none" \/ config.project_id = ""
       THEN /\ steps' = Append(steps, step("prepare", FALSE, {}))
            /\ pc' = "done" /\ result' = "False"
            /\ dirs' = dirs
       ELSE \E failing \in SUBSET ProjectDirs :
               LET r == prepare_directories(dirs, failing)
               IN  /\ dirs' = r.dirs
                   /\ steps' = Append(steps, step("prepare", r.ok, ProjectDirs \ r.dirs))
                   /\ IF r.ok
                      THEN pc' = "load" /\ result' = result
                      ELSE pc' = "done" /\ result' = "False"
    /\ UNCHANGED <<aoi, aoi_call, custom_crs, list_of_datasources, processing_summary,
                   layers, run_log, config, temp_files, composer, tile_cache>>

\* step 5: pipeline.load_datasources_from_config(config_manager)
LoadDatasources ==
    /\ pc = "load"
    /\ list_of_datasources' = load_datasources_from_config(config.datasources)
    /\ steps' = Append(steps, step("load", TRUE, {}))
    /\ pc' = "run"
    /\ UNCHANGED <<aoi, aoi_call, custom_crs, dirs, processing_summary, layers,
                   run_log, result, config, temp_files, composer, tile_cache>>

\* step 6, pipeline.run() up to the loop: the guard, the reset of the
\* summary and _process_aoi_layer
RunBegin ==
    /\ pc = "run"
    /\ IF ~run_initialized(aoi, step_ok("prepare"))
       THEN /\ steps' = Append(steps, step("run", FALSE, {}))
            /\ result' = pipeline_result(FALSE, processing_summary)
            /\ pc' = "done"
            /\ UNCHANGED <<processing_summary, layers>>
       ELSE \E save \in {"error"} \cup (IF "project" \in dirs THEN {"saved"} ELSE {}) :
               LET entries == process_aoi_layer(list_of_datasources, aoi, save)
               IN  /\ processing_summary' = entries
                   /\ layers' = IF entries # << >> /\ entries[1].status = "Success"
                                THEN write_layer(layers,
                                        aoi_layer_name(list_of_datasources), "aoi")
                                ELSE layers
                   /\ pc' = "loop"
                   /\ UNCHANGED <<steps, result>>
    /\ UNCHANGED <<aoi, aoi_call, custom_crs, dirs, list_of_datasources, run_log,
                   config, temp_files, composer, tile_cache>>

log_entry(ds, called, event, fetched, proc) ==
    [id |-> ds.id, fetch_called |-> called, event |-> event, fetched |-> fetched,
     proc |-> proc]

\* step 6, one iteration of the loop of pipeline.run()
RunSource ==
    /\ pc = "loop"
    /\ Len(run_log) < Len(list_of_datasources)
    /\ LET ds == list_of_datasources[Len(run_log) + 1]
       IN  IF ~reaches_fetch(ds, aoi)
           THEN /\ processing_summary' = processing_summary \o skip_source(ds, aoi)
                /\ run_log' = Append(run_log, log_entry(ds, FALSE, "", "", "none"))
                /\ UNCHANGED <<pc, result, steps, layers, temp_files>>
           ELSE \E event \in FetchEvents(ds, aoi, dirs) :
                \E proc \in ProcOutcomes(ds, fetch_data(ds, event), dirs) :
                   LET fetched == fetch_data(ds, event)
                   IN  /\ run_log' = Append(run_log, log_entry(ds, TRUE, event, fetched, proc))
                       /\ IF fetched = "raise"
                          THEN /\ steps' = Append(steps, step("run", FALSE, {}))
                               /\ result' = pipeline_result(FALSE, processing_summary)
                               /\ pc' = "done"
                               /\ UNCHANGED <<processing_summary, layers, temp_files>>
                          ELSE /\ processing_summary' = Append(processing_summary,
                                      summary_entry(ds, source_status(ds, fetched, proc)))
                               /\ layers' = IF proc = "written"
                                            THEN write_layer(layers,
                                                    ds.output_layer_name, ds.id)
                                            ELSE layers
                               /\ temp_files' =
                                    IF event = "tiles" /\ proc # "no_valid_tiles"
                                    THEN temp_files \cup {[prefix |-> "MNT_", id |-> ds.id]}
                                    ELSE IF proc \in {"failed", "empty"}
                                            /\ temp_prefix(ds) # ""
                                    THEN temp_files \cup
                                           {[prefix |-> temp_prefix(ds), id |-> ds.id]}
                                    ELSE temp_files
                               /\ UNCHANGED <<pc, result, steps>>
    /\ UNCHANGED <<aoi, aoi_call, custom_crs, dirs, list_of_datasources, config,
                   composer, tile_cache>>

\* step 6, the end of pipeline.run() (display_summary, cleanup, the QGIS
\* project, the returned summary) and step 7
RunFinish ==
    /\ pc = "loop"
    /\ Len(run_log) = Len(list_of_datasources)
    /\ processing_summary' = display_summary(processing_summary)
    /\ LET c == cleanup(dirs, temp_files)
       IN  /\ temp_files' = c.files
           /\ IF config.generate_qgis_project
              THEN \E outcome \in ComposerOutcomes(c.dirs, layers) :
                      /\ composer' = [called |-> TRUE, outcome |-> outcome,
                                      sources_done |-> Len(run_log),
                                      temp_at_call |-> c.files]
                      /\ dirs' = generate_qgis_project(c.dirs, layers)
                      /\ steps' = Append(steps,
                                     step("run", run_return(outcome) = "summary", {}))
                      /\ result' = pipeline_result(run_return(outcome) = "summary",
                                                   processing_summary')
              ELSE /\ composer' = composer
                   /\ dirs' = c.dirs
                   /\ steps' = Append(steps, step("run", TRUE, {}))
                   /\ result' = pipeline_result(TRUE, processing_summary')
    /\ pc' = "done"
    /\ UNCHANGED <<aoi, aoi_call, custom_crs, list_of_datasources, layers, run_log, config,
                   tile_cache>>

Next ==
    \/ LoadConfiguration
    \/ SetupAoi
    \/ PrepareProjectStructure
    \/ LoadDatasources
    \/ RunBegin
    \/ RunSource
    \/ RunFinish

Spec == Init /\ [][Next]_vars

-----------------------------------------------------------------------------
(* Claims about the pipeline (Spec) *)

EntriesFor(id) == { j \in 1..Len(processing_summary) : processing_summary[j].id = id }

StatusesFor(id) == { processing_summary[j].status : j \in EntriesFor(id) }

\* the fetch of the i-th source of the loop came back with nothing, or its
\* processing failed
SourceFailed(i) ==
    /\ run_log[i].fetch_called
    /\ \/ run_log[i].event \in {"error", "no_data", "no_tiles", "missing"}
       \/ run_log[i].proc \in {"failed", "merge_failed", "no_valid_tiles"}

\* the fetch of the i-th source of the loop gave data and its processing succeeded
SourceSucceeded(i) ==
    /\ run_log[i].fetch_called
    /\ run_log[i].proc \in {"written", "empty", "processed", "merged", "merged_no_hillshade"}

LoopOver == pc = "done" /\ step_ok("load")

StepFailed(name) == \E i \in 1..Len(steps) : steps[i].step = name /\ ~steps[i].ok

ThreeStepsOk == step_ok("setup_aoi") /\ step_ok("prepare") /\ step_ok("load")

\* C2 as stated: the overall result is failure only if AOI resolution,
\* directory preparation or source loading failed; once the three succeeded
\* it is success whatever the sources' outcomes.
C2_AsStated ==
    (pc = "done") =>
        /\ (result = "False") =>
              StepFailed("setup_aoi") \/ StepFailed("prepare") \/ StepFailed("load")
        /\ ThreeStepsOk => result = "True"

\* C2 amended: the overall result is failure only if loading the
\* configuration, AOI resolution, directory preparation or source loading
\* failed; once AOI resolution, directory preparation and source loading
\* succeeded it is success whatever the sources' outcomes.
C2_OverallResult ==
    (pc = "done") =>
        /\ result \in {"True", "False"}
        /\ (result = "False") =>
              \/ StepFailed("config") \/ StepFailed("setup_aoi")
              \/ StepFailed("prepare") \/ StepFailed("load")
        /\ ThreeStepsOk => result = "True"

\* two sources, both recorded with Processing Failed, and the run succeeds
C2_Witness ==
    /\ pc = "done" /\ ThreeStepsOk /\ result = "True"
    /\ Len(processing_summary) = 2
    /\ \A j \in 1..Len(processing_summary) :
          processing_summary[j].status = "Processing Failed"

ConfiguredDisabled ==
    { i \in 1..Len(config.datasources) :
        registry(config.datasources[i].type) # "" /\ ~config.datasources[i].enabled }

ConfiguredEnabled ==
    { i \in 1..Len(config.datasources) :
        /\ registry(config.datasources[i].type) # ""
        /\ config.datasources[i].enabled
        /\ validate_config(config.datasources[i]) = {} }

\* C3 as stated: with one disabled and one enabled source configured, the
\* summary of the finished run holds exactly one outcome with status
\* "Ignored (not enabled)", that of the disabled source, whose fetch was not
\* called, and the run succeeds.
C3_AsStated ==
    (/\ pc = "done" /\ step_ok("load")
     /\ Len(config.datasources) = 2
     /\ Cardinality(ConfiguredDisabled) = 1 /\ Cardinality(ConfiguredEnabled) = 1) =>
        /\ result = "True"
        /\ \A i \in 1..Len(run_log) :
              run_log[i].id \in { config.datasources[k].id : k \in ConfiguredDisabled }
                  => ~run_log[i].fetch_called
        /\ Cardinality({ j \in 1..Len(processing_summary) :
                            processing_summary[j].status = "Ignored (not enabled)" }) = 1
        /\ \A k \in ConfiguredDisabled :
              StatusesFor(config.datasources[k].id) = {"Ignored (not enabled)"}

KmlOutsideBands ==
    /\ aoi_call.kind = "KML" /\ aoi_call.kml.exists /\ aoi_call.kml.has_geometry
    /\ BandsHolding(aoi_call.kml.minx + aoi_call.kml.maxx) = {}

\* C4 as stated: for a boundary file whose centre longitude is in no zone
\* band (and no valid zone override), AOI resolution fails and the run
\* creates no output folder.
C4_AsStated ==
    (KmlOutsideBands /\ ~OverrideValid /\ pc \notin {"start", "setup_aoi"}) =>
        /\ ~aoi_call.ok
        /\ StepFailed("setup_aoi")
        /\ dirs = {}

SuccessStatuses ==
    {"Success", "Success (no data in AOI)", "Success (empty)", "Index (handled)"}

\* C5 as stated: a source whose fetch failed (network error, HTTP error,
\* timeout) is recorded with the failure status "Fetch Failed", never with a
\* success status, and the run goes on.
C5_AsStated ==
    \A i \in 1..Len(run_log) :
        (run_log[i].fetch_called /\ run_log[i].event = "error") =>
            /\ StatusesFor(run_log[i].id) = {"Fetch Failed"}
            /\ StatusesFor(run_log[i].id) \cap SuccessStatuses = {}

\* C6 as stated: when a project, imagery or temp directory could not be
\* created, prepare_project_structure reports failure and the run ends in
\* failure before any source is built or fetched.
C6_AsStated ==
    \A i \in 1..Len(steps) :
        (steps[i].step = "prepare" /\ steps[i].failed # {}) =>
            /\ ~steps[i].ok
            /\ pc = "done" /\ result = "False"
            /\ list_of_datasources = << >>
            /\ run_log = << >>

\* the position of a source id in the datasources list of the configuration
DeclaredAt(id) ==
    CHOOSE i \in 1..Len(config.datasources) : config.datasources[i].id = id

Loaded == step_ok("load") /\ pc \in {"run", "loop", "done"}

\* C15: the source list is in ascending priority, sources of equal priority
\* are in the order of their declaration, and the iterations of run (and so
\* the fetches) follow the list, one source after the other.
C15_PriorityOrder ==
    Loaded =>
        /\ \A i, j \in 1..Len(list_of_datasources) :
              (i < j) =>
                 /\ list_of_datasources[i].priority <= list_of_datasources[j].priority
                 /\ (list_of_datasources[i].priority = list_of_datasources[j].priority)
                       => DeclaredAt(list_of_datasources[i].id)
                            < DeclaredAt(list_of_datasources[j].id)
        /\ Len(run_log) <= Len(list_of_datasources)
        /\ \A k \in 1..Len(run_log) : run_log[k].id = list_of_datasources[k].id

\* three sources were fetched: the raster of priority 1, then the two
\* sources of priority 2 in the order of their declaration
C15_Witness ==
    /\ pc = "done" /\ Len(run_log) = 3
    /\ \A k \in 1..3 : run_log[k].fetch_called
    /\ run_log[1].id = "ortho" /\ run_log[2].id = "hydro" /\ run_log[3].id = "mnt"
    /\ DeclaredAt("hydro") < DeclaredAt("mnt") /\ DeclaredAt("mnt") < DeclaredAt("ortho")

\* the layers written from the AOI extent
AoiLayers == { l \in layers : l.source = "aoi" }

\* C16 as stated: when run reaches its loop, before any source is fetched,
\* exactly one AOI outcome has been appended to the summary and (unless that
\* outcome records a failed save) the AOI extent is a layer of the store,
\* whatever the source list holds.
C16_AsStated ==
    (pc = "loop" /\ run_log = << >>) =>
        /\ Len(processing_summary) = 1
        /\ (processing_summary[1].status = "Success") => AoiLayers # {}

\* the six values of the taxonomy, as run words them
TaxonomyStatuses ==
    {"Fetch Failed", "Processing Failed", "Ignored (not enabled)",
     "Success (no data in AOI)", "Success", "Index (handled)"}

\* the statuses _process_aoi_layer gives the outcome of the AOI layer
AoiLayerStatuses == {"Success", "Success (empty)", "Failed (AOI Extent Save)"}

C18_AsStated ==
    (pc = "done" /\ step_ok("run")) =>
        /\ \A i \in 1..Len(list_of_datasources) :
              Cardinality(EntriesFor(list_of_datasources[i].id)) = 1
        /\ Len(processing_summary) = Len(list_of_datasources) + 1

SuccessfulVectorRuns ==
    { i \in 1..Len(run_log) :
        /\ run_log[i].fetch_called
        /\ list_of_datasources[i].class \in {"WfsDataSource", "LocalGpkgDataSource"}
        /\ StatusesFor(run_log[i].id) = {"Success"} }

\* C20 as stated: after a run the store holds, for each vector source whose
\* outcome is "Success", one layer of its output layer name written from it,
\* and as many layers besides the AOI layer as there are such sources.
C20_AsStated ==
    (pc = "done" /\ step_ok("run")) =>
        /\ \A i \in SuccessfulVectorRuns :
              [name |-> list_of_datasources[i].output_layer_name,
               source |-> run_log[i].id] \in layers
        /\ Cardinality(layers \ AoiLayers) = Cardinality(SuccessfulVectorRuns)

\* C24 as stated: the summary a finished run has sorted for display holds
\* the AOI-index outcome first, then the other outcomes by ascending
\* priority, and by id among equal priorities.
C24_AsStated ==
    (pc = "done" /\ step_ok("run")) =>
        \A i, j \in 1..Len(processing_summary) :
            (i < j) =>
               LET x == processing_summary[i]
                   y == processing_summary[j]
               IN  /\ (y.id = AoiIndexId) => (x.id = AoiIndexId)
                   /\ (x.id # AoiIndexId /\ y.id # AoiIndexId) =>
                         \/ x.priority_level < y.priority_level
                         \/ /\ x.priority_level = y.priority_level
                            /\ id_rank(x.id) <= id_rank(y.id)

\* the iterations of the loop over the DEM source that fetched a list of tiles
MntRuns ==
    { i \in 1..Len(run_log) :
        /\ list_of_datasources[i].class = "MNTLiDARSource"
        /\ run_log[i].fetch_called /\ run_log[i].fetched = "list" }

\* C29: the outcome of the DEM source is "Success" whenever
\* merge/reproject/clip produced the final raster, with or without the
\* hillshade, and "Processing Failed" whenever no fetched tile exists or
\* merge/reproject/clip returned nothing.
C29_MntOutcome ==
    \A i \in MntRuns :
        /\ (run_log[i].proc \in {"merged", "merged_no_hillshade"})
              => StatusesFor(run_log[i].id) = {"Success"}
        /\ (run_log[i].proc \in {"no_valid_tiles", "merge_failed"})
              => StatusesFor(run_log[i].id) = {"Processing Failed"}

\* the DEM was merged, its hillshade failed, and the outcome is "Success"
C29_Witness ==
    /\ pc = "done" /\ step_ok("run")
    /\ \E i \in MntRuns :
          /\ run_log[i].proc = "merged_no_hillshade"
          /\ StatusesFor(run_log[i].id) = {"Success"}

SetupReturned == \E i \in 1..Len(steps) : steps[i].step = "setup_aoi"

\* C28: after setup_aoi returned, either it reported success and the Aoi has
\* a target zone and a projected geometry, or it reported failure and the
\* pipeline holds no Aoi; a folder exists only after a successful setup, and
\* a fetch, an outcome or a layer only after a successful setup and a
\* prepared project structure.
C28_NoPartialAoi ==
    /\ SetupReturned =>
          IF step_ok("setup_aoi")
          THEN /\ aoi # NoAoi
               /\ aoi.target_mtm_crs.form = "epsg"
               /\ aoi.target_mtm_crs.code \in VALID_MTM_CRS
               /\ aoi.combined_geometry_mtm
          ELSE aoi = NoAoi
    /\ ~SetupReturned => aoi = NoAoi
    /\ (dirs # {}) => step_ok("setup_aoi")
    /\ (run_log # << >> \/ processing_summary # << >> \/ layers # {})
          => (step_ok("setup_aoi") /\ step_ok("prepare"))

\* the definition from a boundary file found a zone, the reprojection
\* failed, and the pipeline ended without an Aoi, a folder or a fetch
C28_Witness ==
    /\ pc = "done" /\ StepFailed("setup_aoi")
    /\ aoi_call.kind = "KML" /\ aoi_call.kml.has_geometry /\ ~aoi_call.reproj_ok
    /\ aoi = NoAoi /\ dirs = {} /\ run_log = << >>

-----------------------------------------------------------------------------
(* Vector normalization on one fetched file (SpecVector)                    *)

\* the largest number of features of a fetched file
MaxFeatures == 2

\* the fetched files and what the libraries do with them: the file exists and
\* can be read, its feature count and CRS, whether the CRS can be assumed and
\* the reprojection works, the state of the Aoi geometry, the outcome of the
\* first and of the second call of gpd.clip, the features left by the clip,
\* and whether the write works
VectorInputs ==
    { [exists |-> e, readable |-> r, count |-> n, crs |-> c, set_crs_ok |-> sc,
       reproj_ok |-> rp, aoi |-> a, clip_ok |-> <<c1, c2>>, clipped |-> k,
       save_ok |-> sv] :
        e \in BOOLEAN, r \in BOOLEAN, n \in 0..MaxFeatures,
        c \in {"target", "other", "none"}, sc \in BOOLEAN, rp \in BOOLEAN,
        a \in {"valid", "repaired", "invalid"},
        c1 \in BOOLEAN, c2 \in BOOLEAN, k \in 0..MaxFeatures, sv \in BOOLEAN }

\* what process_vector_data returns, with the calls it made
vector_result(success, before, after, clips, saves) ==
    [success |-> success, count_before |-> before, count_after |-> after,
     clip_calls |-> clips, save_calls |-> saves, wrote |-> success /\ saves = 1,
     raised |-> FALSE]

\* a clipping that gives up at the first failure
clip_without_retry(clip_ok) ==
    [calls |-> 1, clipped |-> clip_ok[1]]

\* the clipping block: gpd.clip, and on any exception one more gpd.clip on
\* the features after buffer(0)
clip_with_retry(clip_ok) ==
    IF clip_ok[1] THEN [calls |-> 1, clipped |-> TRUE]
    ELSE [calls |-> 2, clipped |-> clip_ok[2]]

\* a failed write that reports placeholders
save_failed_result_placeholder(before, after, clips) ==
    vector_result(FALSE, -1, -1, clips, 1)

\* the return of the except branch of the save block
save_failed_result(before, after, clips) ==
    vector_result(FALSE, before, after, clips, 1)

\* process_vector_data
process_vector_data(in) ==
    IF ~in.exists THEN vector_result(FALSE, -1, -1, 0, 0)
    ELSE IF ~in.readable THEN vector_result(FALSE, 0, -1, 0, 0)
    ELSE IF in.count = 0 THEN vector_result(TRUE, 0, 0, 0, 0)
    ELSE
      LET has_crs == in.crs # "none" \/ in.set_crs_ok
          perform_reprojection == in.crs # "target"
          reprojected == ~perform_reprojection \/ (has_crs /\ in.reproj_ok)
          before == in.count
          after == IF in.clipped <= before THEN in.clipped ELSE before
          c == clip_with_retry(in.clip_ok)
      IN  IF ~reprojected THEN vector_result(FALSE, in.count, -1, 0, 0)
          ELSE IF in.aoi = "invalid" THEN vector_result(FALSE, before, -1, 0, 0)
          ELSE IF ~c.clipped THEN vector_result(FALSE, before, -1, c.calls, 0)
          ELSE IF ~in.save_ok THEN save_failed_result(before, after, c.calls)
          ELSE vector_result(TRUE, before, after, c.calls, 1)

\* one call of process_vector_data on one fetched file
VectorProcess ==
    /\ pc = "new"
    /\ \E in \in VectorInputs :
          /\ config' = in
          /\ result' = process_vector_data(in)
    /\ pc' = "processed"
    /\ UNCHANGED <<aoi, aoi_call, custom_crs, dirs, list_of_datasources,
                   processing_summary, layers, run_log, steps, temp_files, composer, tile_cache>>

NextVector == VectorProcess

SpecVector == InitAoi /\ [][NextVector]_vars

-----------------------------------------------------------------------------
(* MNT tile downloads and the persistent tile cache (SpecTiles)             *)

\* the subfeuillets of the Aoi, in order
TileNames == <<"31H05NE", "31H05NO">>

\* what one download can do: the request fails before a byte is written; the
\* body arrives whole, with or without a declared Content-Length; the stream
\* ends short without an exception; the stream raises after a part of the
\* body was written
DownloadOutcomes ==
    {"request_failed", "complete_declared", "complete_undeclared",
     "short_declared", "short_undeclared", "short_raised"}

\* what copy2 into the cache directory can do
CopyOutcomes == {"copied", "failed_before", "failed_midway"}

\* the environment of one tile: it has a name and a url, the download, whether
\* os.remove works, the copy into the cache (each where the code gets to it)
TileEnvs ==
    { e \in [named : BOOLEAN, download : DownloadOutcomes, remove_ok : BOOLEAN,
              copy : CopyOutcomes] :
        /\ (~e.named => e.download = "request_failed")
        /\ (e.download # "short_declared" => e.remove_ok)
        /\ (e.download \in {"request_failed", "short_declared", "short_raised"}
               => e.copy = "copied") }

\* the file of name n in a directory, as a set of at most one record
file_named(files, n) == { f \in files : f.name = n }

\* open(temp_tif_path, 'wb') and the chunks written: the file of that name is
\* replaced
write_temp(files, n, complete, declared, registered) ==
    (files \ file_named(files, n))
        \cup {[name |-> n, complete |-> complete, declared |-> declared,
               registered |-> registered]}

\* the persist block: copy2 of the downloaded file unless the entry exists
persist_to_cache(cache, n, complete, verified, copy) ==
    IF file_named(cache, n) # {} \/ copy = "failed_before" THEN cache
    ELSE cache \cup {[name |-> n, verified |-> verified,
                      complete |-> complete /\ copy = "copied"]}

\* what is left in the temp directory of a download that did not end whole:
\* the explicit check deletes the file if os.remove works, an exception in
\* the stream leaves it
keep_partial(files, n, env) ==
    IF env.download = "short_declared" /\ env.remove_ok
    THEN files \ file_named(files, n)
    ELSE write_temp(files, n, FALSE, TRUE, FALSE)

\* the body of the loop of MNTLiDARSource.fetch_data for one tile;
\* st = [temp, cache, paths]
fetch_tile(st, n, use_cache, env) ==
    IF ~env.named THEN st
    ELSE IF use_cache /\ file_named(st.cache, n) # {}
    THEN LET e == CHOOSE e \in file_named(st.cache, n) : TRUE
         IN  [st EXCEPT !.paths = Append(@, [name |-> n, from |-> "cache",
                                             complete |-> e.complete,
                                             declared |-> e.verified])]
    ELSE IF env.download = "request_failed" THEN st
    ELSE IF env.download \in {"short_declared", "short_raised"}
    THEN [st EXCEPT !.temp = keep_partial(@, n, env)]
    ELSE LET complete == env.download # "short_undeclared"
             verified == env.download = "complete_declared"
         IN  [temp |-> write_temp(st.temp, n, complete, verified, TRUE),
              cache |-> IF use_cache
                        THEN persist_to_cache(st.cache, n, complete, verified, env.copy)
                        ELSE st.cache,
              paths |-> Append(st.paths, [name |-> n, from |-> "temp",
                                          complete |-> complete,
                                          declared |-> verified])]

RECURSIVE fetch_tiles(_, _, _, _)
\* the loop over the subfeuillets from the i-th on
fetch_tiles(st, i, use_cache, envs) ==
    IF i > Len(TileNames) THEN st
    ELSE fetch_tiles(fetch_tile(st, TileNames[i], use_cache, envs[i]),
                     i + 1, use_cache, envs)

\* one call of MNTLiDARSource.fetch_data, in a first or in a later run; the
\* temp directory and the cache are as the earlier runs left them
TileFetch ==
    /\ pc \in {"new", "fetched"}
    /\ \E use_cache \in BOOLEAN, envs \in [1..Len(TileNames) -> TileEnvs] :
          LET st == fetch_tiles([temp |-> temp_files, cache |-> tile_cache,
                                 paths |-> << >>], 1, use_cache, envs)
          IN  /\ config' = [local_cache_dir |-> use_cache]
              /\ temp_files' = st.temp
              /\ tile_cache' = st.cache
              /\ result' = [returned |-> IF st.paths = << >> THEN "None" ELSE "list",
                            paths |-> st.paths, raised |-> FALSE]
    /\ pc' = "fetched"
    /\ UNCHANGED <<aoi, aoi_call, custom_crs, dirs, list_of_datasources,
                   processing_summary, layers, run_log, steps, composer>>

NextTiles == TileFetch

SpecTiles == InitAoi /\ [][NextTiles]_vars

\* the prefixes of the files PipelineManager.cleanup deletes
CleanedPrefixes ==
    {"temp_filtered_", "temp_indexed_", "temp_wfs_", "temp_reproj_",
     "temp_unclipped_mosaic_"}

\* C23: when the project generation is requested and the composer returns
\* failure or raises, run still returns the summary and the run reports
\* success; and the composer is called only when every source of the list
\* has been processed and cleanup has deleted its temporary files.
C23_ComposerFailureHarmless ==
    composer.called =>
        /\ pc = "done" /\ step_ok("run") /\ result = "True"
        /\ composer.sources_done = Len(list_of_datasources)
        /\ Len(run_log) = Len(list_of_datasources)
        /\ \A f \in composer.temp_at_call : f.prefix \notin CleanedPrefixes

\* the composer raised after two sources were processed, and the run
\* reports success
C23_Witness ==
    /\ composer.called /\ composer.outcome = "raise"
    /\ composer.sources_done = 2
    /\ result = "True" /\ step_ok("run")
    /\ Len(processing_summary) = 2

\* C27 as stated: at the end of a run no temporary file created by the fetch
\* of a source is left in the temp working folder.
C27_AsStated ==
    (pc = "done" /\ step_ok("run")) => temp_files = {}

\* the clip step was reached: the file was read, has features, is in the
\* target CRS and the Aoi geometry is usable
ReachedClip ==
    /\ pc = "processed"
    /\ config.exists /\ config.readable /\ config.count > 0
    /\ (config.crs = "target"
        \/ ((config.crs # "none" \/ config.set_crs_ok) /\ config.reproj_ok))
    /\ config.aoi # "invalid"

\* C25: when the first clip fails, the clip is called exactly once more; if
\* that retry succeeds the write is attempted, and if it fails the
\* normalization returns failure without a third clip, without a write and
\* without raising.
C25_ClipRetriedOnce ==
    (ReachedClip /\ ~config.clip_ok[1]) =>
        /\ result.clip_calls = 2
        /\ ~result.raised
        /\ config.clip_ok[2] => result.save_calls = 1
        /\ ~config.clip_ok[2] =>
              /\ ~result.success /\ result.save_calls = 0 /\ ~result.wrote
              /\ result.count_before = config.count /\ result.count_after = -1

\* the first clip failed, the retry succeeded and the layer was written
C25_Witness ==
    /\ ReachedClip /\ ~config.clip_ok[1] /\ config.clip_ok[2]
    /\ result.clip_calls = 2 /\ result.success /\ result.wrote

\* C26: when the normalization returns failure because the write failed, its
\* result holds the feature count before the clip and the feature count
\* after the clip, not -1; the two counts are the same as when the write
\* succeeds.
C26_CountsReported ==
    (ReachedClip /\ clip_with_retry(config.clip_ok).clipped) =>
        /\ result.count_before = config.count
        /\ result.count_after =
              (IF config.clipped <= config.count THEN config.clipped ELSE config.count)
        /\ result.count_before # -1 /\ result.count_after # -1
        /\ result.success = config.save_ok

\* the write failed and the result reports 2 features before and 1 after
C26_Witness ==
    /\ ReachedClip /\ ~config.save_ok /\ result.save_calls = 1
    /\ ~result.success /\ result.count_before = 2 /\ result.count_after = 1

\* C21 as stated: after a fetch no file of a download that received fewer
\* bytes than declared is left in the temp directory, and no such tile is in
\* the fetched list.
C21_AsStated ==
    pc = "fetched" =>
        /\ \A f \in temp_files : ~(f.declared /\ ~f.complete)
        /\ \A i \in 1..Len(result.paths) :
              ~(result.paths[i].from = "temp" /\ result.paths[i].declared
                /\ ~result.paths[i].complete)
        /\ ~result.raised

\* C22 as stated: every entry of the tile cache is a complete tile whose
\* download was verified against the declared length.
C22_AsStated ==
    \A e \in tile_cache : e.complete /\ e.verified

====
